---- MODULE Spec2Model ----
(***************************************************************************)
(* Block subscription engine of the eth crate: the two implementations of  *)
(* the BlockSubscription trait (BlockFetcher over a block range and        *)
(* NewBlockSubscription following the chain head through a spawned task    *)
(* and a bounded mpsc channel) and the pairing of a block's transactions   *)
(* with its receipts (Client::get_block, OrderedBlock::try_create).        *)
(***************************************************************************)
EXTENDS Integers, Sequences, FiniteSets, TLC

(***************************************************************************)
(* Bounds of the model.                                                    *)
(***************************************************************************)
\* u64 arithmetic is modelled modulo U64_MODULUS (the code's 2^64).
U64_MODULUS == 8
\* Largest sampling interval passed to open_subscription.
MaxInterval == 2
\* Number of next() calls made on one handle.
MaxCalls == 3
\* Number of head notifications the remote stream delivers.
MaxHeads == 3
\* Largest block number a head notification carries.
MaxHead == 2
\* Longest transaction / receipt list of a fetched block.
MaxTxs == 2
\* Largest transaction index a node reports.
MaxTxIndex == 2

\* Capacity of the mpsc channel between the task and the handle (the code's
\* BUFFER_SIZE is 100; the model keeps the name and scales the capacity).
BUFFER_SIZE == 2

(***************************************************************************)
(* Program constants.                                                      *)
(***************************************************************************)
\* Client.chain_id, fetched once in Client::new.
chain_id == 1

U64 == 0 .. (U64_MODULUS - 1)

\* Option<u64>::None of transaction_index; Option's derived Ord puts None first.
None == -1

(***************************************************************************)
(* Result<T, Error>                                                        *)
(***************************************************************************)
Ok(v) == [tag |-> "Ok", val |-> v]
Err(e) == [tag |-> "Err", err |-> e]
IsOk(r) == r.tag = "Ok"
IsErr(r) == r.tag = "Err"

\* enum Error: the variants the subscription engine can produce.
FailedToGetBlock(n) == [kind |-> "FailedToGetBlock", number |-> n]
FailedToGetReceipts(n) == [kind |-> "FailedToGetReceipts", number |-> n]
TransactionsReceiptsMismatch(n) == [kind |-> "TransactionsReceiptsMismatch", number |-> n]
NotFullTransactionsFetched(n) == [kind |-> "NotFullTransactionsFetched", number |-> n]
EndOfSubscription == [kind |-> "EndOfSubscription"]
EthError == [kind |-> "EthError"]
ClientError == [kind |-> "ClientError"]
SendError == [kind |-> "SendError"]

(***************************************************************************)
(* Pairing and ordering: OrderedBlock::try_create.                         *)
(***************************************************************************)
\* Vec::sort_by_key is a stable sort: insertion of each element after the
\* last element whose key is <= its own.
RECURSIVE InsertByKey(_, _)
InsertByKey(sorted, x) ==
    IF sorted = <<>> THEN <<x>>
    ELSE IF sorted[Len(sorted)].transaction_index <= x.transaction_index
         THEN Append(sorted, x)
         ELSE Append(InsertByKey(SubSeq(sorted, 1, Len(sorted) - 1), x),
                     sorted[Len(sorted)])

RECURSIVE sort_by_key(_)
sort_by_key(v) ==
    IF v = <<>> THEN <<>>
    ELSE InsertByKey(sort_by_key(SubSeq(v, 1, Len(v) - 1)), v[Len(v)])

Min(a, b) == IF a <= b THEN a ELSE b

\* BlockItemIdentifier::new(number, index as u64)
BlockItemIdentifier(number, index) == [block_number |-> number, index |-> index]

\* TxRx::try_create never fails.
TxRx_try_create(id, tx, rx) == [id |-> id, tx |-> tx, rx |-> rx]

\* Variant: the identifier carries the reported transaction index instead of
\* the position in the zipped sequence.
try_create_reported_index(cid, number, hash, transactions, receipts) ==
    LET txs == sort_by_key(transactions)
        rxs == sort_by_key(receipts)
        items == [i \in 1 .. Min(Len(txs), Len(rxs)) |->
                    TxRx_try_create(BlockItemIdentifier(number, txs[i].transaction_index),
                                    txs[i], rxs[i])]
    IN  Ok([chain_id |-> cid, number |-> number, hash |-> hash, items |-> items])

\* Variant: the two lists are zipped in arrival order, without the sorts.
try_create_arrival_order(cid, number, hash, transactions, receipts) ==
    LET items == [i \in 1 .. Min(Len(transactions), Len(receipts)) |->
                    TxRx_try_create(BlockItemIdentifier(number, i - 1),
                                    transactions[i], receipts[i])]
    IN  Ok([chain_id |-> cid, number |-> number, hash |-> hash, items |-> items])

\* transactions.into_iter().zip(receipts).enumerate().map(..): zip stops at
\* the shorter list, enumerate counts from 0.
try_create(cid, number, hash, transactions, receipts) ==
    LET txs == sort_by_key(transactions)
        rxs == sort_by_key(receipts)
        items == [i \in 1 .. Min(Len(txs), Len(rxs)) |->
                    TxRx_try_create(BlockItemIdentifier(number, i - 1), txs[i], rxs[i])]
    IN  Ok([chain_id |-> cid, number |-> number, hash |-> hash, items |-> items])

(***************************************************************************)
(* Answers of the remote node to the two RPC requests of get_block.        *)
(***************************************************************************)
TxHashes == {"a", "b"}
TxIndices == {None} \cup (0 .. MaxTxIndex)

\* alloy Transaction / TransactionReceipt: the fields the engine reads.
Transactions == [transaction_index : TxIndices, hash : TxHashes]
Receipts == [transaction_index : TxIndices, hash : {"a"}]

SeqUpTo(S, n) == UNION {[1 .. k -> S] : k \in 0 .. n}

\* BlockTransactions<Transaction>: Full(Vec<Transaction>), Hashes(Vec<B256>), Uncle.
Full(txs) == [kind |-> "Full", list |-> txs]
Hashes(hs) == [kind |-> "Hashes", list |-> hs]
Uncle == [kind |-> "Uncle", list |-> <<>>]

\* BlockTransactions::len
transactions_len(bt) == IF bt.kind = "Uncle" THEN 0 ELSE Len(bt.list)

\* BlockTransactions::into_transactions: the full transactions, none for
\* Hashes and Uncle.
into_transactions(bt) == IF bt.kind = "Full" THEN bt.list ELSE <<>>

\* header.hash of block `number`.
BlockHash(number) == <<"hash", number>>

\* Outcome of one provider request: Err(transport), Ok(None), Ok(Some(v)).
RpcErr == [rpc |-> "Err"]
RpcNull == [rpc |-> "Null"]
RpcSome(v) == [rpc |-> "Some", value |-> v]

Block(number, bt) == [hash |-> BlockHash(number), transactions |-> bt]

BlockAnswers(number) ==
    {RpcErr, RpcNull}
        \cup {RpcSome(Block(number, Full(txs))) : txs \in SeqUpTo(Transactions, MaxTxs)}
        \cup {RpcSome(Block(number, Hashes(hs))) : hs \in SeqUpTo(TxHashes, MaxTxs)}
        \cup {RpcSome(Block(number, Uncle))}

ReceiptAnswers ==
    {RpcErr, RpcNull} \cup {RpcSome(rxs) : rxs \in SeqUpTo(Receipts, MaxTxs)}

(***************************************************************************)
(* Client::get_block and its two requests.                                 *)
(***************************************************************************)
get_eth_block(number, answer) ==
    IF answer.rpc = "Err" THEN Err(FailedToGetBlock(number))
    ELSE IF answer.rpc = "Null" THEN Err(FailedToGetBlock(number))
    ELSE Ok(answer.value)

get_receipts(number, answer) ==
    IF answer.rpc = "Err" THEN Err(FailedToGetReceipts(number))
    ELSE IF answer.rpc = "Null" THEN Err(FailedToGetBlock(number))
    ELSE Ok(answer.value)

\* futures::future::try_join: Ok of both values when both succeed, otherwise
\* the error of the future that fails first (`first` names the request that
\* completes first when both fail).
try_join(a, b, first) ==
    IF IsOk(a) /\ IsOk(b) THEN Ok(<<a.val, b.val>>)
    ELSE IF IsErr(a) /\ IsErr(b) THEN (IF first = "block" THEN a ELSE b)
    ELSE IF IsErr(a) THEN a
    ELSE b

\* Variant: the length comparison is missing.
get_block_unchecked(number, blockAnswer, receiptsAnswer, first) ==
    LET joined == try_join(get_eth_block(number, blockAnswer),
                           get_receipts(number, receiptsAnswer), first)
    IN  IF IsErr(joined) THEN joined
        ELSE try_create(chain_id, number, joined.val[1].hash,
                        into_transactions(joined.val[1].transactions), joined.val[2])

get_block(number, blockAnswer, receiptsAnswer, first) ==
    LET joined == try_join(get_eth_block(number, blockAnswer),
                           get_receipts(number, receiptsAnswer), first)
    IN  IF IsErr(joined) THEN joined
        ELSE LET block == joined.val[1]
                 receipts == joined.val[2]
             IN  IF transactions_len(block.transactions) # Len(receipts)
                 THEN Err(TransactionsReceiptsMismatch(number))
                 ELSE try_create(chain_id, number, block.hash,
                                 into_transactions(block.transactions), receipts)

(***************************************************************************)
(* State.                                                                  *)
(***************************************************************************)
VARIABLES
    kind,             \* concrete type behind Box<dyn BlockSubscription>
    config,           \* BlockFetcher.config: start_block is the cursor
    interval,         \* BlockFetcher.interval / interval captured by the task
    channel,          \* mpsc channel: queue and liveness of its two ends
    task,             \* the task spawned by subscribe_latest_heads
    heads,            \* head notifications delivered by the remote stream so far
    taken,            \* how many of them stream.next() has yielded to the task
    stream_open,      \* the remote side has not closed the notification stream
    dropped,          \* the handle has been discarded
    overflow_checks,  \* build profile: u64 `+=` panics on overflow (else wraps)
    results,          \* outcomes of the completed next() calls, in call order
    fetched,          \* block numbers for which get_block was called, in order
    at_cancel,        \* channel length and number of results at the first cancel()
    opened,           \* arguments of open_subscription
    pair_input,       \* arguments of a direct get_block / try_create call
    pair_output       \* its result

vars == <<kind, config, interval, channel, task, heads, taken, stream_open, dropped,
          overflow_checks, results, fetched, at_cancel, opened,
          pair_input, pair_output>>

sub_vars == <<kind, config, interval, channel, task, heads, taken, stream_open, dropped,
              overflow_checks, results, fetched, at_cancel, opened>>

pair_vars == <<pair_input, pair_output>>

\* Option<T> is a sequence of length 0 (None) or 1 (Some).
Some(v) == <<v>>

SubscriptionConfig(start, end) == [start_block |-> start, end_block |-> end]
NoConfig == SubscriptionConfig(0, 0)

NoTask == [pc |-> "none", block_number |-> 0, held |-> <<>>, result |-> <<>>]
NoChannel == [queue |-> <<>>, sender |-> FALSE, receiver |-> FALSE]
NotCancelled == [queued |-> -1, results |-> -1]

\* BlockFetcher::new
BlockFetcher_new(cfg, ival) ==
    [kind |-> "BlockFetcher", config |-> cfg, interval |-> ival,
     channel |-> NoChannel, task |-> NoTask]

\* subscribe_latest_heads: mpsc::channel(BUFFER_SIZE) and tokio::spawn of the
\* task, which starts at its first await (get_ws).
subscribe_latest_heads(ival) ==
    [kind |-> "NewBlockSubscription", config |-> NoConfig, interval |-> ival,
     channel |-> [queue |-> <<>>, sender |-> TRUE, receiver |-> TRUE],
     task |-> [pc |-> "connect", block_number |-> 0, held |-> <<>>, result |-> <<>>]]

\* Variant: the range configuration is ignored.
open_subscription_always_live(cfg, ival) == subscribe_latest_heads(ival)

\* Client::open_subscription
open_subscription(cfg, ival) ==
    IF cfg # <<>> THEN BlockFetcher_new(cfg[1], ival)
    ELSE subscribe_latest_heads(ival)

Configs == {<<>>} \cup {Some(SubscriptionConfig(s, e)) : s \in U64, e \in U64}
Intervals == 0 .. MaxInterval

NoPairInput == [number |-> 0, block |-> RpcErr, receipts |-> RpcErr, first |-> "block"]
NoPairOutput == [op |-> "none"]

InitSub(cfg, ival) ==
    LET h == open_subscription(cfg, ival)
    IN  /\ kind = h.kind
        /\ config = h.config
        /\ interval = h.interval
        /\ channel = h.channel
        /\ task = h.task
        /\ heads = <<>>
        /\ taken = 0
        /\ stream_open = TRUE
        /\ dropped = FALSE
        /\ results = <<>>
        /\ fetched = <<>>
        /\ at_cancel = NotCancelled
        /\ opened = [config |-> cfg, interval |-> ival]

Init ==
    /\ \E cfg \in Configs, ival \in Intervals : InitSub(cfg, ival)
    /\ overflow_checks \in (IF kind = "BlockFetcher" THEN BOOLEAN ELSE {FALSE})
    /\ pair_input = NoPairInput
    /\ pair_output = NoPairOutput

(***************************************************************************)
(* What the node answers to the fetches made through a subscription: a     *)
(* well-formed block of one transaction, a failure of either request, or   *)
(* a block whose receipt list is short.                                    *)
(***************************************************************************)
Tx0 == [transaction_index |-> 0, hash |-> "a"]

NodeAnswers(number) ==
    {[block |-> RpcSome(Block(number, Full(<<Tx0>>))), receipts |-> RpcSome(<<Tx0>>),
      first |-> "block"],
     [block |-> RpcErr, receipts |-> RpcSome(<<Tx0>>), first |-> "block"],
     [block |-> RpcSome(Block(number, Full(<<Tx0>>))), receipts |-> RpcErr,
      first |-> "receipts"],
     [block |-> RpcSome(Block(number, Full(<<Tx0>>))), receipts |-> RpcSome(<<>>),
      first |-> "block"]}

Panic == [tag |-> "Panic"]

\* Outcome of the latest next() call.
NoCall == [tag |-> "NoCall"]
LastResult == IF results = <<>> THEN NoCall ELSE results[Len(results)]

\* The consumer still holds the handle and has not unwound from a panic.
ConsumerCanCall ==
    /\ ~dropped
    /\ Len(results) < MaxCalls
    /\ LastResult # Panic

(***************************************************************************)
(* BlockFetcher                                                            *)
(***************************************************************************)
\* `self.config.start_block += self.interval` on u64
AddU64(a, b) == (a + b) % U64_MODULUS
Overflows(a, b) == a + b >= U64_MODULUS

\* Variant: the end of the range is never noticed.
end_reached_never(cfg) == FALSE

\* `if self.config.start_block >= self.config.end_block`
end_reached(cfg) == cfg.start_block >= cfg.end_block

\* Variant: the end of the range is reported as Ok(None).
range_end_ok_none == Ok(<<>>)

\* `return Err(Error::EndOfSubscription)`
range_end_result == Err(EndOfSubscription)

\* `self.config.start_block += self.interval` in a build that wraps
advance(cfg, ival) == [cfg EXCEPT !.start_block = AddU64(cfg.start_block, ival)]

\* Variant: the cursor advances after a failed fetch as well.
BlockFetcherNext_advance_on_failure ==
    /\ kind = "BlockFetcher"
    /\ ConsumerCanCall
    /\ IF end_reached(config)
       THEN /\ results' = Append(results, range_end_result)
            /\ UNCHANGED <<config, fetched>>
       ELSE \E ans \in NodeAnswers(config.start_block) :
              LET r == get_block(config.start_block, ans.block, ans.receipts, ans.first)
              IN  /\ fetched' = Append(fetched, config.start_block)
                  /\ config' = advance(config, interval)
                  /\ results' = Append(results, IF IsErr(r) THEN r ELSE Ok(Some(r.val)))
    /\ UNCHANGED <<kind, interval, channel, task, heads, taken, stream_open, dropped,
                   overflow_checks, at_cancel, opened, pair_vars>>

\* BlockFetcher::next
BlockFetcherNext ==
    /\ kind = "BlockFetcher"
    /\ ConsumerCanCall
    /\ IF end_reached(config)
       THEN /\ results' = Append(results, range_end_result)
            /\ UNCHANGED <<config, fetched>>
       ELSE \E ans \in NodeAnswers(config.start_block) :
              LET r == get_block(config.start_block, ans.block, ans.receipts, ans.first)
              IN  /\ fetched' = Append(fetched, config.start_block)
                  /\ IF IsErr(r)
                     THEN /\ results' = Append(results, r)
                          /\ UNCHANGED config
                     ELSE IF Overflows(config.start_block, interval) /\ overflow_checks
                     THEN /\ results' = Append(results, Panic)
                          /\ UNCHANGED config
                     ELSE /\ config' = advance(config, interval)
                          /\ results' = Append(results, Ok(Some(r.val)))
    /\ UNCHANGED <<kind, interval, channel, task, heads, taken, stream_open, dropped,
                   overflow_checks, at_cancel, opened, pair_vars>>

(***************************************************************************)
(* NewBlockSubscription: the handle                                        *)
(***************************************************************************)
TaskRunning == task.pc \in {"connect", "stream_next", "get_block", "send"}

\* Variant: the abort is lost and the task keeps running.
abort_lost(t) == t

\* Variant: the abort does not look at whether the task has already ended.
abort_unconditional(t) == [t EXCEPT !.pc = "aborting"]

\* Variant: the abort does not reach a task suspended in send.
abort_unless_sending(t) == IF t.pc \in {"connect", "stream_next", "get_block"}
                           THEN [t EXCEPT !.pc = "aborting"]
                           ELSE t

\* JoinHandle::abort: a task suspended at an await is never polled again; a
\* task that has already ended is left as it is.
abort(t) == IF t.pc \in {"connect", "stream_next", "get_block", "send"}
            THEN [t EXCEPT !.pc = "aborting"]
            ELSE t

\* Variant: cancel() of the live handle is empty as well.
cancel_noop(k, t) == t

\* Variant: cancel() aborts whatever the implementation.
cancel_any(k, t) == [t EXCEPT !.pc = "aborting"]

\* BlockSubscription::cancel of either implementation, on the pair
\* <<kind, task>>.
cancel(k, t) == IF k = "NewBlockSubscription" THEN abort(t) ELSE t

\* Variant: no Drop implementation.
drop_without_cancel(k, t) == t

\* Drop for NewBlockSubscription calls cancel(); BlockFetcher has no Drop.
drop(k, t) == cancel(k, t)

\* Variant: try_recv, which reports an empty queue at once.
recv_completes_at_once(ch) == TRUE

\* Variant: the receiver hands out the newest queued block.
recv_last(ch) == IF ch.queue # <<>> THEN Some(ch.queue[Len(ch.queue)]) ELSE <<>>

\* Variant: a closed channel reads as empty, whatever is still queued.
recv_closed_first(ch) ==
    IF ch.queue = <<>> \/ ~ch.sender THEN <<>> ELSE Some(Head(ch.queue))

\* Receiver::recv completes with a queued block, or with None once the queue
\* is empty and the sender is gone; it waits otherwise.
recv_completes(ch) == ch.queue # <<>> \/ ~ch.sender
recv(ch) == IF ch.queue # <<>> THEN Some(Head(ch.queue)) ELSE <<>>

\* NewBlockSubscription::next: Some(block) => Ok(Some(block)), None => Ok(None)
NewBlockSubscriptionNext ==
    /\ kind = "NewBlockSubscription"
    /\ ConsumerCanCall
    /\ recv_completes(channel)
    /\ results' = Append(results, Ok(recv(channel)))
    /\ channel' = IF channel.queue # <<>>
                  THEN [channel EXCEPT !.queue = Tail(channel.queue)]
                  ELSE channel
    /\ UNCHANGED <<kind, config, interval, task, heads, taken, stream_open, dropped,
                   overflow_checks, fetched, at_cancel, opened, pair_vars>>

\* What the first cancel() call found: the queue length and the number of
\* next() calls completed before it.
mark_cancel(mark, ch, res) ==
    IF mark = NotCancelled
    THEN [queued |-> Len(ch.queue), results |-> Len(res)]
    ELSE mark

\* cancel() through the trait object.
Cancel ==
    /\ ~dropped
    /\ LastResult # Panic
    /\ task' = cancel(kind, task)
    /\ at_cancel' = mark_cancel(at_cancel, channel, results)
    /\ UNCHANGED <<kind, config, interval, channel, heads, taken, stream_open, dropped,
                   overflow_checks, results, fetched, opened, pair_vars>>

\* The handle goes out of scope: Drop::drop calls cancel(), then the fields
\* are dropped, which closes the receiver and discards what is queued.
DropHandle ==
    /\ ~dropped
    /\ dropped' = TRUE
    /\ task' = drop(kind, task)
    /\ channel' = IF kind = "NewBlockSubscription"
                  THEN [channel EXCEPT !.receiver = FALSE, !.queue = <<>>]
                  ELSE channel
    /\ UNCHANGED <<kind, config, interval, heads, taken, stream_open,
                   overflow_checks, results, fetched, at_cancel, opened, pair_vars>>

(***************************************************************************)
(* NewBlockSubscription: the spawned task and the remote stream.  Every    *)
(* action of the task is one poll, from the await that woke it to the next *)
(* await that suspends it.                                                 *)
(***************************************************************************)
\* The task's future returns or unwinds: its sender is dropped with it.
Finish(t, pc, result) == [t EXCEPT !.pc = pc, !.held = <<>>, !.result = result]

\* client.get_ws().await? and provider.subscribe_blocks().await?
Connect ==
    /\ task.pc = "connect"
    /\ \/ /\ task' = [task EXCEPT !.pc = "stream_next"]
          /\ UNCHANGED channel
       \/ /\ \E e \in {ClientError, EthError} : task' = Finish(task, "finished", Some(Err(e)))
          /\ channel' = [channel EXCEPT !.sender = FALSE]
    /\ UNCHANGED <<kind, config, interval, heads, taken, stream_open, dropped,
                   overflow_checks, results, fetched, at_cancel, opened, pair_vars>>

Subscribed == task.pc \in {"stream_next", "get_block", "send"}

\* The remote node announces a new head.
NewHead ==
    /\ Subscribed
    /\ stream_open
    /\ Len(heads) < MaxHeads
    /\ \E h \in 0 .. MaxHead : heads' = Append(heads, h)
    /\ UNCHANGED <<kind, config, interval, channel, task, taken, stream_open, dropped,
                   overflow_checks, results, fetched, at_cancel, opened, pair_vars>>

\* The remote node closes the notification stream.
StreamEnd ==
    /\ Subscribed
    /\ stream_open
    /\ stream_open' = FALSE
    /\ UNCHANGED <<kind, config, interval, channel, task, heads, taken, dropped,
                   overflow_checks, results, fetched, at_cancel, opened, pair_vars>>

\* Variant: no interval filter.
skip_never(block_number, ival) == FALSE

\* `if block_number % interval != 0 { continue }`
skip(block_number, ival) == block_number % ival # 0

\* stream.next().await: a header, with the interval filter and the start of
\* get_block; or None when the stream has ended.
StreamNext ==
    /\ task.pc = "stream_next"
    /\ IF taken < Len(heads)
       THEN LET block_number == heads[taken + 1]
            IN  /\ taken' = taken + 1
                /\ IF interval = 0
                   THEN \* `block_number % interval` panics on a zero divisor
                        /\ task' = Finish(task, "panicked", <<>>)
                        /\ channel' = [channel EXCEPT !.sender = FALSE]
                        /\ UNCHANGED fetched
                   ELSE IF skip(block_number, interval)
                   THEN UNCHANGED <<task, channel, fetched>>
                   ELSE /\ task' = [task EXCEPT !.pc = "get_block",
                                                !.block_number = block_number]
                        /\ fetched' = Append(fetched, block_number)
                        /\ UNCHANGED channel
       ELSE /\ ~stream_open
            /\ task' = Finish(task, "finished", Some(Err(EndOfSubscription)))
            /\ channel' = [channel EXCEPT !.sender = FALSE]
            /\ UNCHANGED <<taken, fetched>>
    /\ UNCHANGED <<kind, config, interval, heads, stream_open, dropped,
                   overflow_checks, results, at_cancel, opened, pair_vars>>

\* Variant: an unbounded channel, the send never suspends.
send_unbounded(t, ch, block) ==
    IF ~ch.receiver
    THEN [task |-> Finish(t, "finished", Some(Err(SendError))),
          channel |-> [ch EXCEPT !.sender = FALSE]]
    ELSE [task |-> [t EXCEPT !.pc = "stream_next", !.held = <<>>],
          channel |-> [ch EXCEPT !.queue = Append(ch.queue, block)]]

\* sender.send(block).await?: fails once the receiver is closed, completes
\* when the queue has room, suspends holding the block otherwise.
send(t, ch, block) ==
    IF ~ch.receiver
    THEN [task |-> Finish(t, "finished", Some(Err(SendError))),
          channel |-> [ch EXCEPT !.sender = FALSE]]
    ELSE IF Len(ch.queue) < BUFFER_SIZE
    THEN [task |-> [t EXCEPT !.pc = "stream_next", !.held = <<>>],
          channel |-> [ch EXCEPT !.queue = Append(ch.queue, block)]]
    ELSE [task |-> [t EXCEPT !.pc = "send", !.held = Some(block)],
          channel |-> ch]

\* client.get_block(block_number).await? completes, then the send.
FetchDone ==
    /\ task.pc = "get_block"
    /\ \E ans \in NodeAnswers(task.block_number) :
         LET r == get_block(task.block_number, ans.block, ans.receipts, ans.first)
         IN  IF IsErr(r)
             THEN /\ task' = Finish(task, "finished", Some(r))
                  /\ channel' = [channel EXCEPT !.sender = FALSE]
             ELSE /\ task' = send(task, channel, r.val).task
                  /\ channel' = send(task, channel, r.val).channel
    /\ UNCHANGED <<kind, config, interval, heads, taken, stream_open, dropped,
                   overflow_checks, results, fetched, at_cancel, opened, pair_vars>>

\* A send suspended on a full queue is woken by the room the consumer made.
SendResume ==
    /\ task.pc = "send"
    /\ Len(channel.queue) < BUFFER_SIZE \/ ~channel.receiver
    /\ task' = send(task, channel, task.held[1]).task
    /\ channel' = send(task, channel, task.held[1]).channel
    /\ UNCHANGED <<kind, config, interval, heads, taken, stream_open, dropped,
                   overflow_checks, results, fetched, at_cancel, opened, pair_vars>>

\* The runtime drops the future of an aborted task, and its sender with it.
AbortComplete ==
    /\ task.pc = "aborting"
    /\ task' = Finish(task, "cancelled", <<>>)
    /\ channel' = [channel EXCEPT !.sender = FALSE]
    /\ UNCHANGED <<kind, config, interval, heads, taken, stream_open, dropped,
                   overflow_checks, results, fetched, at_cancel, opened, pair_vars>>

Next ==
    \/ BlockFetcherNext
    \/ NewBlockSubscriptionNext
    \/ Cancel
    \/ DropHandle
    \/ Connect
    \/ NewHead
    \/ StreamEnd
    \/ StreamNext
    \/ FetchDone
    \/ SendResume
    \/ AbortComplete

Spec == Init /\ [][Next]_vars

(***************************************************************************)
(* Direct calls of Client::get_block and OrderedBlock::try_create on every *)
(* answer the node can give, within the bounds.                            *)
(***************************************************************************)
PairNumbers == {U64_MODULUS - 1}

\* `first` matters only when both requests fail.
Firsts(b, r) ==
    IF b.rpc # "Some" /\ r.rpc # "Some" THEN {"block", "receipts"} ELSE {"block"}

InitPair ==
    /\ InitSub(Some(SubscriptionConfig(0, 0)), 1)
    /\ overflow_checks = FALSE
    /\ \E n \in PairNumbers, r \in ReceiptAnswers :
         \E b \in BlockAnswers(n) :
           \E f \in Firsts(b, r) :
             pair_input = [number |-> n, block |-> b, receipts |-> r, first |-> f]
    /\ pair_output = NoPairOutput

\* client.get_block(number).await
GetBlockCall ==
    /\ pair_output = NoPairOutput
    /\ pair_output' = [op |-> "get_block",
                       result |-> get_block(pair_input.number, pair_input.block,
                                            pair_input.receipts, pair_input.first)]
    /\ UNCHANGED <<pair_input, sub_vars>>

\* OrderedBlock::try_create(chain_id, number, hash, transactions, receipts)
TryCreateCall ==
    /\ pair_output = NoPairOutput
    /\ pair_input.block.rpc = "Some"
    /\ pair_input.block.value.transactions.kind = "Full"
    /\ pair_input.receipts.rpc = "Some"
    /\ pair_output' = [op |-> "try_create",
                       result |-> try_create(chain_id, pair_input.number,
                                             pair_input.block.value.hash,
                                             pair_input.block.value.transactions.list,
                                             pair_input.receipts.value)]
    /\ UNCHANGED <<pair_input, sub_vars>>

NextPair ==
    \/ GetBlockCall
    \/ TryCreateCall

SpecPair == InitPair /\ [][NextPair]_vars

(***************************************************************************)
(* The join inside Client::get_block, request by request: the two futures  *)
(* are created together and complete in either order; try_join is polled   *)
(* whenever one of them completes, and once it has completed the future    *)
(* still pending is dropped.                                               *)
(***************************************************************************)
\* Variant: the join waits for both requests whatever their outcomes.
join_all_poll(b, r) ==
    IF b # <<>> /\ r # <<>> THEN Some(try_join(b[1], r[1], "block")) ELSE <<>>

\* One poll of TryJoin over the states of its two futures (<<>> is pending):
\* the block future is looked at first.
try_join_poll(b, r) ==
    IF b # <<>> /\ IsErr(b[1]) THEN Some(b[1])
    ELSE IF r # <<>> /\ IsErr(r[1]) THEN Some(r[1])
    ELSE IF b # <<>> /\ r # <<>> THEN Some(Ok(<<b[1].val, r[1].val>>))
    ELSE <<>>

JoinStart == [op |-> "try_join", block |-> <<>>, receipts |-> <<>>, result |-> <<>>]

InitJoin ==
    /\ InitSub(Some(SubscriptionConfig(0, 0)), 1)
    /\ overflow_checks = FALSE
    /\ \E n \in PairNumbers, r \in ReceiptAnswers :
         \E b \in BlockAnswers(n) :
           pair_input = [number |-> n, block |-> b, receipts |-> r, first |-> "block"]
    /\ pair_output = JoinStart

\* get_eth_block(number) completes while the join is pending.
BlockRequestDone ==
    /\ pair_output.op = "try_join"
    /\ pair_output.result = <<>>
    /\ pair_output.block = <<>>
    /\ LET b == Some(get_eth_block(pair_input.number, pair_input.block))
       IN  pair_output' = [pair_output EXCEPT
                             !.block = b,
                             !.result = try_join_poll(b, pair_output.receipts)]
    /\ UNCHANGED <<pair_input, sub_vars>>

\* get_receipts(number) completes while the join is pending.
ReceiptsRequestDone ==
    /\ pair_output.op = "try_join"
    /\ pair_output.result = <<>>
    /\ pair_output.receipts = <<>>
    /\ LET r == Some(get_receipts(pair_input.number, pair_input.receipts))
       IN  pair_output' = [pair_output EXCEPT
                             !.receipts = r,
                             !.result = try_join_poll(pair_output.block, r)]
    /\ UNCHANGED <<pair_input, sub_vars>>

NextJoin ==
    \/ BlockRequestDone
    \/ ReceiptsRequestDone

SpecJoin == InitJoin /\ [][NextJoin]_vars

(***************************************************************************)
(* The head follower alone, with the fairness the tokio runtime gives: an  *)
(* aborted task is scheduled once more and its future dropped.             *)
(***************************************************************************)
InitLive ==
    /\ \E ival \in Intervals : InitSub(<<>>, ival)
    /\ overflow_checks = FALSE
    /\ pair_input = NoPairInput
    /\ pair_output = NoPairOutput

\* The steps of a consumer that never calls cancel() itself.
NextDrop ==
    \/ NewBlockSubscriptionNext
    \/ DropHandle
    \/ Connect
    \/ NewHead
    \/ StreamEnd
    \/ StreamNext
    \/ FetchDone
    \/ SendResume
    \/ AbortComplete

SpecDropFair == InitLive /\ [][NextDrop]_vars /\ WF_vars(AbortComplete)

\* The steps of a consumer that keeps the handle and may call cancel().
NextCancel ==
    \/ NewBlockSubscriptionNext
    \/ Cancel
    \/ Connect
    \/ NewHead
    \/ StreamEnd
    \/ StreamNext
    \/ FetchDone
    \/ SendResume
    \/ AbortComplete

SpecCancelFair == InitLive /\ [][NextCancel]_vars /\ WF_vars(AbortComplete)

(***************************************************************************)
(* Vocabulary of the properties.                                           *)
(***************************************************************************)
IsBlock(r) == IF r.tag = "Ok" THEN r.val # <<>> ELSE FALSE
IsFailure(r) == r.tag = "Err"
IsEndOfSource(r) == r = Ok(<<>>) \/ r = Err(EndOfSubscription)
IsFetchFailure(r) ==
    IF r.tag = "Err"
    THEN r.err.kind \in {"FailedToGetBlock", "FailedToGetReceipts",
                         "TransactionsReceiptsMismatch"}
    ELSE FALSE
NumberOf(r) == r.val[1].number

IsRange == kind = "BlockFetcher"
IsLive == kind = "NewBlockSubscription"

\* The source has nothing more to give.
Exhausted ==
    \/ IsRange /\ end_reached(config)
    \/ IsLive /\ channel.queue = <<>> /\ ~channel.sender

\* The latest next() call found the source exhausted.
ReportedExhaustion == Exhausted /\ LastResult # NoCall /\ ~IsBlock(LastResult)

(***************************************************************************)
(* Properties.                                                             *)
(***************************************************************************)
OpenedStart == opened.config[1].start_block
OpenedEnd == opened.config[1].end_block

\* C1: a BlockFetcher opened with start < end and interval >= 1 whose fetches
\* all succeed returns, call after call, the blocks at the heights start,
\* start+interval, ... below end, and EndOfSubscription on every call after
\* the last of them.
C1_RangeYieldsExactHeights ==
    (/\ IsRange
     /\ OpenedStart < OpenedEnd
     /\ opened.interval >= 1
     /\ \A i \in 1 .. Len(results) : ~IsFetchFailure(results[i]))
    => \A i \in 1 .. Len(results) :
         LET h == OpenedStart + (i - 1) * opened.interval
         IN  IF h < OpenedEnd
             THEN IsBlock(results[i]) /\ NumberOf(results[i]) = h
             ELSE results[i] = Err(EndOfSubscription)

\* C2 as stated: a next() call that finds the source exhausted returns the
\* same non-failure end-of-source outcome, Ok(None), on both sources.
C2_SameEndOfSource == ReportedExhaustion => LastResult = Ok(<<>>)

\* C2: a BlockFetcher whose cursor has reached end reports it as the failure
\* Err(EndOfSubscription) and never returns Ok(None); a NewBlockSubscription
\* whose channel is closed and empty reports it as Ok(None) and never
\* returns a failure.
C2_EndOfSourcePerSource ==
    /\ IsRange =>
         /\ ReportedExhaustion => LastResult = Err(EndOfSubscription)
         /\ \A i \in 1 .. Len(results) : results[i] # Ok(<<>>)
    /\ IsLive =>
         /\ ReportedExhaustion => LastResult = Ok(<<>>)
         /\ \A i \in 1 .. Len(results) : IsOk(results[i])

C2_Witness ==
    /\ IsLive
    /\ Len(results) >= 2
    /\ IsBlock(results[1])
    /\ LastResult = Ok(<<>>)

\* C3 as stated: once a next() call has returned end-of-source or a failure,
\* no later next() call on the handle returns a block.
C3_TerminalIsSticky ==
    \A i, j \in 1 .. Len(results) :
        (i < j /\ (IsEndOfSource(results[i]) \/ IsFailure(results[i])))
            => ~IsBlock(results[j])

\* C3: once a next() call has returned end-of-source, every later next() call
\* on the handle returns the same end-of-source outcome.
C3_EndOfSourceIsSticky ==
    \A i, j \in 1 .. Len(results) :
        (i < j /\ IsEndOfSource(results[i])) => results[j] = results[i]

C3_Witness ==
    /\ IsRange
    /\ Len(results) >= 3
    /\ IsBlock(results[1])
    /\ results[2] = Err(EndOfSubscription)
    /\ results[3] = Err(EndOfSubscription)

\* The task ended with a failure to open the head stream, a fetch failure
\* or a mismatch.
TaskFailed ==
    IF task.result = <<>> THEN FALSE
    ELSE task.result[1].err.kind \in
            {"ClientError", "EthError", "FailedToGetBlock", "FailedToGetReceipts",
             "TransactionsReceiptsMismatch"}

\* C4: when the task of a NewBlockSubscription has ended with a failure and
\* the consumer has been told end-of-source, some next() call has returned a
\* failure.
C4_TaskFailureSurfaced ==
    (IsLive /\ TaskFailed /\ LastResult = Ok(<<>>))
        => \E i \in 1 .. Len(results) : IsFailure(results[i])

\* Blocks returned by the next() calls made after the first cancel().
BlocksAfterCancel ==
    Cardinality({i \in (at_cancel.results + 1) .. Len(results) : IsBlock(results[i])})

\* C5 as stated: after cancel() at most one further block is returned.
C5_AtMostOneAfterCancel ==
    (IsLive /\ at_cancel # NotCancelled) => BlocksAfterCancel <= 1

\* C5: after cancel() nothing more enters the channel: the blocks returned
\* afterwards and those still queued are together at most the blocks that
\* were queued when the task was aborted, which can be as many as
\* BUFFER_SIZE.
C5_OnlyQueuedAfterCancel ==
    (IsLive /\ at_cancel # NotCancelled)
        => /\ BlocksAfterCancel + Len(channel.queue) <= at_cancel.queued
           /\ at_cancel.queued <= BUFFER_SIZE

C5_Witness ==
    /\ IsLive
    /\ at_cancel.queued = 2
    /\ BlocksAfterCancel = 2

\* C6: in every state reached after a cancel() call, on either source, a
\* further cancel() call leaves the task as it is (and cancel() touches
\* nothing else of the handle or the channel): calling it again is the same
\* as having called it once.
C6_CancelIdempotent ==
    at_cancel # NotCancelled => cancel(kind, task) = task

C6_Witness ==
    /\ IsLive
    /\ at_cancel # NotCancelled
    /\ task.pc = "cancelled"
    /\ fetched # <<>>

\* C7: once a NewBlockSubscription handle is dropped its task is never
\* polled again, starts no fetch and completes no send, and it ends up
\* terminated.
C7_DropAbortsTask ==
    /\ [](dropped => ~TaskRunning)
    /\ [][dropped => (fetched' = fetched /\ Len(channel'.queue) <= Len(channel.queue))]_vars
    /\ (dropped ~> task.pc \in {"cancelled", "finished", "panicked"})

C7_Witness ==
    /\ IsLive
    /\ dropped
    /\ at_cancel = NotCancelled
    /\ fetched # <<>>
    /\ task.pc = "cancelled"

\* C8: the task fetches exactly the notified heights that are multiples of
\* interval, and every block queued or returned by next() has a number that
\* is a multiple of interval.
IsMultiple(n) == interval >= 1 /\ n % interval = 0

C8_OnlyMultiplesFetched ==
    IsLive =>
        /\ fetched = SelectSeq(SubSeq(heads, 1, taken), IsMultiple)
        /\ \A i \in 1 .. Len(channel.queue) : IsMultiple(channel.queue[i].number)
        /\ \A i \in 1 .. Len(results) :
             IsBlock(results[i]) => IsMultiple(NumberOf(results[i]))

C8_Witness ==
    /\ IsLive
    /\ interval = 2
    /\ heads = <<1, 1, 2>>
    /\ taken = 3
    /\ fetched = <<2>>
    /\ \E i \in 1 .. Len(results) : IsBlock(results[i]) /\ NumberOf(results[i]) = 2

\* The direct call was given a block with full transactions and receipts.
PairTxs == pair_input.block.value.transactions.list
PairRxs == pair_input.receipts.value
PairFull ==
    /\ pair_input.block.rpc = "Some"
    /\ pair_input.receipts.rpc = "Some"
    /\ pair_input.block.value.transactions.kind = "Full"

\* C9: for a block with N transactions and N receipts, whatever transaction
\* indices they report, the OrderedBlock has exactly N pairs and pair i
\* carries the identifier (block number, i) for i = 0 .. N-1.
C9_DenseSequenceIndices ==
    (pair_output # NoPairOutput /\ PairFull /\ Len(PairTxs) = Len(PairRxs))
        => /\ IsOk(pair_output.result)
           /\ Len(pair_output.result.val.items) = Len(PairTxs)
           /\ \A i \in 1 .. Len(PairTxs) :
                pair_output.result.val.items[i].id
                    = BlockItemIdentifier(pair_input.number, i - 1)

C9_Witness ==
    /\ pair_output # NoPairOutput
    /\ pair_output.op = "get_block"
    /\ PairFull
    /\ Len(PairTxs) = 2
    /\ PairTxs[1].transaction_index = 2
    /\ PairTxs[2].transaction_index = 0
    /\ Len(PairRxs) = 2
    /\ IsOk(pair_output.result)
    /\ Len(pair_output.result.val.items) = 2

\* C10: when both requests succeed and the block's transaction count differs
\* from the receipt count, get_block fails with
\* TransactionsReceiptsMismatch(number) and yields no OrderedBlock.
C10_MismatchFails ==
    (/\ pair_output # NoPairOutput
     /\ pair_output.op = "get_block"
     /\ pair_input.block.rpc = "Some"
     /\ pair_input.receipts.rpc = "Some"
     /\ transactions_len(pair_input.block.value.transactions) # Len(PairRxs))
    => pair_output.result = Err(TransactionsReceiptsMismatch(pair_input.number))

C10_Witness ==
    /\ pair_output # NoPairOutput
    /\ pair_output.op = "get_block"
    /\ PairFull
    /\ Len(PairTxs) = 2
    /\ Len(PairRxs) = 1
    /\ pair_output.result = Err(TransactionsReceiptsMismatch(pair_input.number))

\* Permutations of a list.
Perms(n) == {p \in [1 .. n -> 1 .. n] : \A i, j \in 1 .. n : p[i] = p[j] => i = j}
Permute(s, p) == [i \in 1 .. Len(s) |-> s[p[i]]]
IndexSet(s) == {s[i].transaction_index : i \in 1 .. Len(s)}
DistinctIndices(s) == Cardinality(IndexSet(s)) = Len(s)

\* C11: when the transactions and the receipts report the same set of
\* distinct indices, the OrderedBlock is the same for every permutation of
\* the two lists, its pairs are in ascending order of reported index, and
\* each pair holds the transaction and the receipt of one reported index.
C11_PairedByReportedIndex ==
    (/\ pair_output # NoPairOutput
     /\ PairFull
     /\ DistinctIndices(PairTxs)
     /\ DistinctIndices(PairRxs)
     /\ IndexSet(PairTxs) = IndexSet(PairRxs))
    => /\ IsOk(pair_output.result)
       /\ \A p, q \in Perms(Len(PairTxs)) :
             try_create(chain_id, pair_input.number, pair_input.block.value.hash,
                        Permute(PairTxs, p), Permute(PairRxs, q))
                 = pair_output.result
       /\ LET items == pair_output.result.val.items
          IN  /\ Len(items) = Len(PairTxs)
              /\ \A i \in 1 .. Len(items) :
                    items[i].tx.transaction_index = items[i].rx.transaction_index
              /\ \A i, j \in 1 .. Len(items) :
                    i < j => items[i].tx.transaction_index < items[j].tx.transaction_index

C11_Witness ==
    /\ pair_output # NoPairOutput
    /\ pair_output.op = "try_create"
    /\ PairFull
    /\ Len(PairTxs) = 2
    /\ PairTxs[1].transaction_index = 2
    /\ PairTxs[2].transaction_index = 0
    /\ Len(PairRxs) = 2
    /\ PairRxs[1].transaction_index = 0
    /\ PairRxs[2].transaction_index = 2
    /\ pair_output.result.val.items[1].tx = PairTxs[2]
    /\ pair_output.result.val.items[1].rx = PairRxs[1]

C13_RangeSwitchesToHeads ==
    (opened.config # <<>> /\ LastResult # NoCall)
        => LastResult # Err(EndOfSubscription)

\* Block numbers of a sequence of blocks / of the blocks among the outcomes.
Numbers(blocks) == [i \in 1 .. Len(blocks) |-> blocks[i].number]
ReturnedBlocks ==
    LET blocks == SelectSeq(results, IsBlock)
    IN  [i \in 1 .. Len(blocks) |-> blocks[i].val[1]]
IsPrefix(a, b) == Len(a) <= Len(b) /\ a = SubSeq(b, 1, Len(a))

\* C14: on a NewBlockSubscription the numbers of the blocks returned by
\* next() are, in arrival order, a prefix of the head notifications that
\* are multiples of interval; and so are, while the handle lives, the
\* returned blocks followed by those queued and the one held by a suspended
\* send.
C14_ReturnedIsPrefixOfFiltered ==
    IsLive =>
        /\ IsPrefix(Numbers(ReturnedBlocks), SelectSeq(heads, IsMultiple))
        /\ ~dropped =>
              IsPrefix(Numbers(ReturnedBlocks \o channel.queue \o task.held),
                       SelectSeq(SubSeq(heads, 1, taken), IsMultiple))

C14_Witness ==
    /\ IsLive
    /\ interval = 2
    /\ heads = <<2, 1, 0>>
    /\ Numbers(ReturnedBlocks) = <<2, 0>>

\* The task has returned or unwound, or its future has been dropped.
TaskTerminated == task.pc \in {"finished", "cancelled", "panicked"}
StreamEnded ==
    IF task.result = <<>> THEN FALSE ELSE task.result[1] = Err(EndOfSubscription)

\* C15: when the head stream ends the task terminates and its sender is
\* dropped; no next() call returns a failure; while the handle lives the
\* blocks returned and those still queued are exactly the blocks fetched,
\* in order, so that Ok(None) comes after all of them; and any next() call
\* returns Ok(None) only from an empty queue whose task has terminated.
C15_StreamEndDrainsThenEnds ==
    /\ [](IsLive /\ StreamEnded =>
            /\ TaskTerminated
            /\ ~channel.sender
            /\ \A i \in 1 .. Len(results) : IsOk(results[i])
            /\ ~dropped => Numbers(ReturnedBlocks \o channel.queue) = fetched
            /\ LastResult = Ok(<<>>) => Numbers(ReturnedBlocks) = fetched)
    /\ [][(IsLive /\ Len(results') > Len(results)
                 /\ results'[Len(results')] = Ok(<<>>))
            => (channel.queue = <<>> /\ TaskTerminated /\ ~channel.sender)]_vars
    /\ [][(IsLive /\ Len(results') > Len(results) /\ channel.queue # <<>>)
            => (/\ results'[Len(results')] = Ok(Some(Head(channel.queue)))
                /\ channel'.queue = Tail(channel.queue))]_vars

C15_Witness ==
    /\ IsLive
    /\ StreamEnded
    /\ Len(results) = 3
    /\ IsBlock(results[1])
    /\ IsBlock(results[2])
    /\ results[3] = Ok(<<>>)
    /\ at_cancel = NotCancelled

\* C16: the queue never holds more than BUFFER_SIZE blocks; a task
\* suspended in send holds exactly one fetched block and the queue is full
\* or was so when it suspended; while it is suspended no notification is
\* taken and no fetch is started; and when it leaves the send by completing
\* it, the held block is appended to the queue.
C16_BoundedChannelBackpressure ==
    /\ [](IsLive =>
            /\ Len(channel.queue) <= BUFFER_SIZE
            /\ Len(task.held) <= 1
            /\ task.pc = "send" => Len(task.held) = 1
            /\ task.held # <<>> => task.pc \in {"send", "aborting"})
    /\ [][(IsLive /\ task.pc = "send")
            => (/\ taken' = taken
                /\ fetched' = fetched
                /\ task'.pc = "send" => task'.held = task.held
                /\ task'.pc = "stream_next" =>
                      channel'.queue = Append(channel.queue, task.held[1]))]_vars
    /\ [][(IsLive /\ task.pc # "send" /\ task'.pc = "send")
            => Len(channel.queue) = BUFFER_SIZE]_vars

C16_Witness ==
    /\ IsLive
    /\ task.pc = "send"
    /\ Len(channel.queue) = BUFFER_SIZE
    /\ Len(task.held) = 1
    /\ Len(fetched) = BUFFER_SIZE + 1
    /\ at_cancel = NotCancelled

\* cancel() has been called on a NewBlockSubscription.
Cancelled == IsLive /\ at_cancel # NotCancelled

\* C17: from the cancel() call on, whatever the task was doing, it is never
\* polled again: it takes no notification, starts no fetch and completes no
\* send; and with no step of the consumer or of the remote node it ends up
\* terminated.
C17_CancelTerminatesTask ==
    /\ [](Cancelled => ~TaskRunning)
    /\ [][Cancelled => (/\ taken' = taken
                         /\ fetched' = fetched
                         /\ Len(channel'.queue) <= Len(channel.queue))]_vars
    /\ (Cancelled ~> TaskTerminated)

C17_Witness ==
    /\ IsLive
    /\ task.pc = "cancelled"
    /\ results = <<>>
    /\ at_cancel.queued = BUFFER_SIZE
    /\ Len(channel.queue) = BUFFER_SIZE
    /\ Len(fetched) = BUFFER_SIZE + 1

\* C18: after cancel() every next() call returns Ok: the block at the head
\* of the queue, or Ok(None) when the queue is empty; the sender is
\* eventually dropped and stays so, from when on next() never waits; and
\* once more calls have been made than blocks were queued at the cancel()
\* the outcome is Ok(None).
C18_CancelEndsWithoutFailure ==
    /\ [](Cancelled => \A i \in 1 .. Len(results) : IsOk(results[i]))
    /\ [][(Cancelled /\ Len(results') > Len(results))
            => results'[Len(results')] =
                  (IF channel.queue # <<>> THEN Ok(Some(Head(channel.queue)))
                                           ELSE Ok(<<>>))]_vars
    /\ [](Cancelled /\ Len(results) - at_cancel.results > at_cancel.queued
            => LastResult = Ok(<<>>))
    /\ (Cancelled ~> ~channel.sender)
    /\ [][~channel.sender => ~channel'.sender]_vars
    /\ [](~channel.sender => recv_completes(channel))

C18_Witness ==
    /\ IsLive
    /\ at_cancel.queued = 1
    /\ at_cancel.results = 1
    /\ Len(results) = 3
    /\ IsBlock(results[1])
    /\ IsBlock(results[2])
    /\ results[3] = Ok(<<>>)
    /\ task.pc = "cancelled"

\* The task ended with the failure of a fetch.
TaskFetchFailed ==
    IF task.result = <<>> THEN FALSE ELSE IsFetchFailure(task.result[1])

\* C19: a BlockFetcher::next call whose fetch at cursor c fails returns
\* that failure, for height c, and leaves the cursor at c; the cursor moves
\* only in a call that returns a block, and then by interval (in u64
\* arithmetic); a task whose
\* fetch failed has returned with that failure, its sender dropped, and
\* afterwards takes no notification, starts no fetch and sends nothing.
C19_FetchFailureHandling ==
    /\ [][(IsRange /\ Len(results') > Len(results)
                  /\ IsFetchFailure(results'[Len(results')]))
            => (/\ ~end_reached(config)
                /\ config' = config
                /\ fetched' = Append(fetched, config.start_block)
                /\ results'[Len(results')].err.number = config.start_block)]_vars
    /\ [][(IsRange /\ config' # config)
            => (/\ Len(results') > Len(results)
                /\ IsBlock(results'[Len(results')])
                /\ config'.start_block = AddU64(config.start_block, interval)
                /\ config'.end_block = config.end_block)]_vars
    /\ [](IsLive /\ TaskFetchFailed
            => (/\ task.pc = "finished"
                /\ ~channel.sender
                /\ fetched # <<>>
                /\ fetched[Len(fetched)] = task.result[1].err.number))
    /\ [][(IsLive /\ TaskFetchFailed)
            => (/\ taken' = taken
                /\ fetched' = fetched
                /\ Len(channel'.queue) <= Len(channel.queue))]_vars

C19_Witness ==
    /\ IsRange
    /\ Len(results) = 2
    /\ IsFetchFailure(results[1])
    /\ IsBlock(results[2])
    /\ NumberOf(results[2]) = OpenedStart
    /\ fetched = <<OpenedStart, OpenedStart>>
    /\ interval >= 1
    /\ config.start_block = OpenedStart + interval

\* C20: for every start, end and interval, no next() call of a BlockFetcher
\* panics and the blocks it returns have strictly increasing numbers, each
\* the previous one plus interval.
C20_StrictlyIncreasingFixedStep ==
    IsRange =>
        /\ \A i \in 1 .. Len(results) : results[i] # Panic
        /\ \A i \in 1 .. Len(ReturnedBlocks) - 1 :
             /\ ReturnedBlocks[i].number < ReturnedBlocks[i + 1].number
             /\ ReturnedBlocks[i + 1].number = ReturnedBlocks[i].number + opened.interval

\* The lists handed to OrderedBlock::try_create by the direct call.
SuppliedTxs ==
    IF pair_output.op = "get_block"
    THEN into_transactions(pair_input.block.value.transactions)
    ELSE PairTxs
SuppliedRxs == PairRxs

\* C21: every OrderedBlock constructed, by get_block or by try_create
\* itself, has as many items as transactions and as many items as receipts
\* were handed to its construction.
C21_ItemsMatchBothLists ==
    (/\ pair_output # NoPairOutput
     /\ pair_input.block.rpc = "Some"
     /\ pair_input.receipts.rpc = "Some"
     /\ IsOk(pair_output.result))
    => /\ Len(pair_output.result.val.items) = Len(SuppliedTxs)
       /\ Len(pair_output.result.val.items) = Len(SuppliedRxs)

\* C22: when both requests succeed and the block carries transaction hashes
\* instead of full transactions, get_block fails with
\* NotFullTransactionsFetched(number), whatever the length of the receipts.
C22_HashesOnlyFails ==
    (/\ pair_output # NoPairOutput
     /\ pair_output.op = "get_block"
     /\ pair_input.block.rpc = "Some"
     /\ pair_input.receipts.rpc = "Some"
     /\ pair_input.block.value.transactions.kind = "Hashes")
    => pair_output.result = Err(NotFullTransactionsFetched(pair_input.number))

\* C24: on a BlockFetcher a next() call made with cursor < end calls
\* get_block once, for the height of the cursor; a next() call made with
\* cursor >= end calls it not at all; and no other step calls it.
C24_OneFetchPerCall ==
    [][IsRange =>
         IF Len(results') > Len(results)
         THEN IF config.start_block < config.end_block
              THEN fetched' = Append(fetched, config.start_block)
              ELSE fetched' = fetched
         ELSE fetched' = fetched]_vars

C24_Witness ==
    /\ IsRange
    /\ interval = 2
    /\ Len(results) = 3
    /\ IsFetchFailure(results[1])
    /\ IsBlock(results[2])
    /\ results[3] = Err(EndOfSubscription)
    /\ fetched = <<OpenedStart, OpenedStart>>
    /\ at_cancel # NotCancelled

\* The cursor of a BlockFetcher before its i-th next() call, from the
\* arguments of open_subscription and the blocks returned before.
CursorBefore(i) ==
    (OpenedStart
        + opened.interval * Len(SelectSeq(SubSeq(results, 1, i - 1), IsBlock)))
      % U64_MODULUS

\* C25: on a BlockFetcher a cancel() call changes nothing of the handle;
\* and with or without cancel() calls in between, the outcome of every
\* next() call is the one fixed by the arguments of open_subscription, the
\* blocks returned before and the node's answer: Err(EndOfSubscription)
\* once the cursor has reached end, otherwise the block at the cursor or
\* the failure of its fetch.
C25_RangeCancelIsNoOp ==
    /\ [](IsRange => cancel(kind, task) = task)
    /\ [][(IsRange /\ at_cancel' # at_cancel)
            => UNCHANGED <<kind, config, interval, channel, task, heads, taken,
                           stream_open, dropped, overflow_checks, results, fetched,
                           opened>>]_vars
    /\ [](IsRange =>
            /\ config.start_block = CursorBefore(Len(results) + 1)
            /\ config.end_block = OpenedEnd
            /\ interval = opened.interval
            /\ \A i \in 1 .. Len(results) :
                 IF CursorBefore(i) >= OpenedEnd
                 THEN results[i] = Err(EndOfSubscription)
                 ELSE \/ IsBlock(results[i]) /\ NumberOf(results[i]) = CursorBefore(i)
                      \/ IsFetchFailure(results[i])
                           /\ results[i].err.number = CursorBefore(i)
                      \/ results[i] = Panic /\ overflow_checks
                           /\ Overflows(CursorBefore(i), opened.interval))

C25_Witness ==
    /\ IsRange
    /\ interval = 1
    /\ at_cancel = [queued |-> 0, results |-> 1]
    /\ Len(results) = 3
    /\ IsBlock(results[1])
    /\ IsBlock(results[2])
    /\ NumberOf(results[2]) = OpenedStart + 1
    /\ results[3] = Err(EndOfSubscription)

\* Outcomes of the two requests of the join under way.
JoinBlock == get_eth_block(pair_input.number, pair_input.block)
JoinReceipts == get_receipts(pair_input.number, pair_input.receipts)

\* C23: both requests are pending together and complete in either order;
\* the join succeeds only when both have completed with success, and then
\* does succeed; as soon as a request has completed with a failure the join
\* has failed with that failure, the other request still pending if it had
\* not completed before; and the join never has both failures in hand.
C23_FailFastJoin ==
    pair_output.op = "try_join" =>
        /\ pair_output.block \in {<<>>, Some(JoinBlock)}
        /\ pair_output.receipts \in {<<>>, Some(JoinReceipts)}
        /\ (IF pair_output.result = <<>> THEN FALSE ELSE IsOk(pair_output.result[1]))
              <=> (/\ pair_output.block # <<>>
                   /\ pair_output.receipts # <<>>
                   /\ IsOk(JoinBlock)
                   /\ IsOk(JoinReceipts))
        /\ (pair_output.block # <<>> /\ IsErr(JoinBlock))
              => pair_output.result = Some(JoinBlock)
        /\ (pair_output.receipts # <<>> /\ IsErr(JoinReceipts))
              => pair_output.result = Some(JoinReceipts)
        /\ pair_output.result # <<>> =>
              pair_output.result[1] \in
                  {try_join(JoinBlock, JoinReceipts, f) : f \in {"block", "receipts"}}

C23_Witness ==
    /\ pair_output.op = "try_join"
    /\ IsOk(JoinBlock)
    /\ pair_output.block = <<>>
    /\ pair_output.receipts # <<>>
    /\ pair_output.result = Some(Err(FailedToGetReceipts(pair_input.number)))

====
